---- MODULE Spec2Model ----
(***************************************************************************)
(* Model of client.py: the microphone capture callback, the request        *)
(* generator (_audio_data_generator inside request_stream) that the RPC    *)
(* library pulls from its sender thread, and the main thread running       *)
(* listen / listen_print_loop with its SIGINT handler.                     *)
(***************************************************************************)
EXTENDS Integers, Sequences, FiniteSets, TLC

\* ---- bounds of the model ------------------------------------------------
MaxInputs == 4        \* frames delivered + responses delivered + sessions rebuilt
MaxSessions == 2      \* StreamingRecognize calls made by listen

\* ---- program constants (client.py:18-29) --------------------------------
RATE == 16000
CHUNK == RATE \div 10
SECS_OVERLAP == 1
BOT_NAME == <<"J", "a", "r", "v", "i", "s">>

\* deque(maxlen=SECS_OVERLAP * RATE / CHUNK), client.py:46
OverlapMaxLen == (SECS_OVERLAP * RATE) \div CHUNK

\* The close sentinel.  A real frame is a non-empty sequence of frame
\* numbers >= 1 (its bytes); frame number 0 is never captured.
None == <<0>>

Sessions == 1..MaxSessions

\* ---- pure helpers -------------------------------------------------------
RECURSIVE Join(_)
\* b''.join(data), for data holding byte strings only
Join(data) == IF data = <<>> THEN <<>> ELSE Head(data) \o Join(Tail(data))

RECURSIVE ListRemove(_, _)
\* list.remove(x): drops the first occurrence only
ListRemove(data, x) ==
    IF data = <<>> THEN <<>>
    ELSE IF Head(data) = x THEN Tail(data)
    ELSE <<Head(data)>> \o ListRemove(Tail(data), x)

In(x, data) == \E i \in DOMAIN data : data[i] = x

RECURSIVE DequeExtend(_, _)
\* deque.extend on a deque with maxlen: append on the right, evict on the left
DequeExtend(dq, items) ==
    IF items = <<>> THEN dq
    ELSE LET a == Append(dq, Head(items))
             b == IF Len(a) > OverlapMaxLen THEN Tail(a) ELSE a
         IN DequeExtend(b, Tail(items))

\* str.lower() on the characters the transcripts use
UpperCase == <<"J", "A", "R", "V", "I", "S">>
LowerCase == <<"j", "a", "r", "v", "i", "s">>
LowerChar(c) ==
    IF \E i \in DOMAIN UpperCase : UpperCase[i] = c
    THEN LowerCase[CHOOSE i \in DOMAIN UpperCase : UpperCase[i] = c]
    ELSE c
Lower(text) == [i \in DOMAIN text |-> LowerChar(text[i])]

\* the characters str.split() without arguments treats as separators
IsSpace(c) == c \in {" ", "\t", "\n"}

RECURSIVE SplitFrom(_, _, _)
\* str.split(): maximal runs of non-blank characters
SplitFrom(text, word, acc) ==
    IF text = <<>> THEN (IF word = <<>> THEN acc ELSE Append(acc, word))
    ELSE IF IsSpace(Head(text))
         THEN SplitFrom(Tail(text), <<>>, IF word = <<>> THEN acc ELSE Append(acc, word))
         ELSE SplitFrom(Tail(text), Append(word, Head(text)), acc)
Split(text) == SplitFrom(text, <<>>, <<>>)

\* the wake word anywhere in the text, as `BOT_NAME.lower() in text.lower()`
getting_bots_attention_Substring(text) ==
    \E i \in 1..Len(text) : \E j \in i..Len(text) :
        SubSeq(Lower(text), i, j) = Lower(BOT_NAME)

getting_bots_attention(text) == In(Lower(BOT_NAME), Split(Lower(text)))

\* ---- the responses the remote service may deliver ------------------------
HeyJarvis == <<"h", "e", "y", " ", "J", "a", "r", "v", "i", "s">>
Lights == <<"l", "i", "g", "h", "t", "s">>
Transcripts == {HeyJarvis, Lights}

OK == "OK"
Response(code, message, results, ept) ==
    [code |-> code, message |-> message, results |-> results, endpointer_type |-> ept]
\* a result with its alternatives, best first
ResultAlt(ts, f) ==
    [alternatives |-> [i \in DOMAIN ts |-> [transcript |-> ts[i]]], is_final |-> f]
Result(t, f) == ResultAlt(<<t>>, f)

Responses ==
    {Response(c, m, <<>>, e) :
        c \in {OK}, m \in {""}, e \in {"END_OF_UTTERANCE", "START_OF_SPEECH"}}
    \cup {Response("INTERNAL", m, r, e) :
        m \in {"quota"}, r \in {<<>>, <<Result(Lights, TRUE)>>},
        e \in {"END_OF_UTTERANCE"}}
    \cup {Response(OK, "", <<Result(t, f)>>, "START_OF_SPEECH") :
        t \in Transcripts, f \in BOOLEAN}

NoResponse == Response(OK, "", <<>>, "NONE")

\* ---- a wider set of responses, for the main thread on its own --------------
Jarviston == <<"J", "a", "r", "v", "i", "s", "t", "o", "n">>
ShoutedJarvis == <<"J", "A", "R", "V", "I", "S">>
LowerJarvis == <<"j", "a", "r", "v", "i", "s">>
HeyTabJarvis == <<"h", "e", "y", "\t", "j", "a", "r", "v", "i", "s">>
LightsNewlineJarvis == <<"l", "i", "g", "h", "t", "s", "\n", "J", "a", "r", "v", "i", "s">>
PaddedJarvis == <<" ", "J", "a", "r", "v", "i", "s", " ">>
HeyJarvisGlued == <<"h", "e", "y", "J", "a", "r", "v", "i", "s">>
JarvisLights == <<"J", "a", "r", "v", "i", "s", " ", "l", "i", "g", "h", "t", "s">>
JarviS == <<"j", "a", "r", "v", "i", " ", "s">>
NoText == <<>>
HeySpacesJarVis == <<"h", "e", "y", " ", " ", "J", "a", "r", "V", "i", "s">>
HeyJarviston == <<"h", "e", "y", " ", "J", "a", "r", "v", "i", "s", "t", "o", "n">>
JarvisComma == <<"J", "a", "r", "v", "i", "s", ",">>
JarvistonJarvis == <<"J", "A", "R", "V", "I", "S", "T", "O", "N", " ", "j", "a", "r", "v", "i", "s">>
DialogTexts ==
    {HeyJarvis, Lights, Jarviston, ShoutedJarvis,
     LowerJarvis, HeyTabJarvis, LightsNewlineJarvis, PaddedJarvis,
     HeyJarvisGlued, JarvisLights, JarviS, NoText,
     HeySpacesJarVis, HeyJarviston, JarvisComma, JarvistonJarvis}

DialogResponses ==
    {Response(OK, "", <<>>, e) :
        e \in {"END_OF_UTTERANCE", "START_OF_SPEECH", "END_OF_AUDIO"}}
    \cup {Response("INTERNAL", "quota", r, "END_OF_UTTERANCE") :
        r \in {<<>>, <<Result(Lights, TRUE)>>}}
    \cup {Response(OK, "", <<Result(t, f)>>, "START_OF_SPEECH") :
        t \in DialogTexts, f \in BOOLEAN}
    \cup {Response(OK, "", <<Result(t, f)>>, "END_OF_UTTERANCE") :
        t \in {HeyJarvis, Lights}, f \in BOOLEAN}
    \cup {Response(OK, "", <<Result(tu[1], f), Result(tu[2], ~f)>>, "END_OF_UTTERANCE") :
        tu \in {<<HeyJarvis, Lights>>, <<Lights, HeyJarvis>>}, f \in BOOLEAN}
    \cup {Response(OK, "", <<ResultAlt(tu, f)>>, "START_OF_SPEECH") :
        tu \in {<<HeyJarvis, Lights>>, <<Lights, HeyJarvis>>}, f \in BOOLEAN}

VARIABLES
    captured,              \* frames delivered by the microphone so far
    audio_open,            \* the PyAudio input stream is running
    buff,                  \* queue.Queue shared by all threads
    overlap_buffer,        \* collections.deque(maxlen=OverlapMaxLen)
    gen,                   \* per session: the request generator's position (pc), its
                           \* batch (data), every item it took from the queue (took)
                           \* and what it put back (back)
    out,                   \* per session: what the request generator yielded
    recognize_stream,      \* session bound to listen's variable recognize_stream
    status,                \* per session: state of the RPC
    mainpc,                \* position of the main thread
    resp,                  \* loop variable of listen_print_loop
    nresp,                 \* responses delivered so far
    result,                \* how listen ended
    listening_for_prompt,
    listening_for_command,
    heard,                 \* transcripts printed as 'Heard command: ...'
    interrupted,           \* SIGINT has been delivered
    eou_seen               \* sessions whose responses carried an end of utterance

\* what the environment has fed the program so far
Inputs == captured + nresp + (recognize_stream - 1)

vars == <<captured, audio_open, buff, overlap_buffer, gen, out, recognize_stream,
          status, mainpc, resp, nresp, result, listening_for_prompt,
          listening_for_command, heard, interrupted, eou_seen>>

captureVars == <<captured, audio_open>>
mainVars == <<recognize_stream, mainpc, resp, nresp, result, listening_for_prompt,
              listening_for_command, heard, eou_seen>>
dialogVars == <<listening_for_prompt, listening_for_command, heard>>

NewGenerator(pc) == [pc |-> pc, data |-> <<>>, took |-> <<>>, back |-> <<>>]

Init ==
    /\ captured = 0
    /\ audio_open = TRUE
    /\ buff = <<>>
    /\ overlap_buffer = <<>>
    /\ gen = [s \in Sessions |-> NewGenerator(IF s = 1 THEN "created" ELSE "none")]
    /\ out = [s \in Sessions |-> <<>>]
    /\ recognize_stream = 1
    /\ status = [s \in Sessions |-> IF s = 1 THEN "active" ELSE "unopened"]
    /\ mainpc = "read"
    /\ resp = NoResponse
    /\ nresp = 0
    /\ result = [kind |-> "running"]
    /\ listening_for_prompt = TRUE
    /\ listening_for_command = FALSE
    /\ heard = <<>>
    /\ interrupted = FALSE
    /\ eou_seen = {}

\* ---- capture thread -------------------------------------------------------
\* _fill_buffer: buff.put(in_data)
FillBuffer ==
    /\ audio_open
    /\ Inputs < MaxInputs
    /\ captured' = captured + 1
    /\ buff' = Append(buff, <<captured + 1>>)
    /\ UNCHANGED <<audio_open, overlap_buffer, gen, out, status, interrupted>>
    /\ UNCHANGED mainVars

\* ---- sender thread of session s: request_stream(_audio_data_generator) ----
\* The library resumes a suspended generator only while the RPC is live; a
\* next() already running finishes whatever happens to the RPC meanwhile.
Yield(s, kind, content) ==
    out' = [out EXCEPT ![s] = Append(@, [kind |-> kind, content |-> content,
                                         sent |-> status[s] = "active"])]

SetGen(s, pc, data) == gen' = [gen EXCEPT ![s].pc = pc, ![s].data = data]

\* first next(): the config request (client.py:188)
SendConfig(s) ==
    /\ gen[s].pc = "created"
    /\ status[s] = "active"
    /\ SetGen(s, "config", <<>>)
    /\ Yield(s, "config", <<>>)
    /\ UNCHANGED <<buff, overlap_buffer, status, interrupted>>
    /\ UNCHANGED captureVars /\ UNCHANGED mainVars

\* second next(): the generator body starts (client.py:98-99)
StartGenerator(s) ==
    /\ gen[s].pc = "config"
    /\ status[s] = "active"
    /\ IF overlap_buffer # <<>>
       THEN /\ SetGen(s, "overlap", <<>>)
            /\ Yield(s, "replay", Join(overlap_buffer))
       ELSE /\ SetGen(s, "get", <<>>)
            /\ UNCHANGED out
    /\ UNCHANGED <<buff, overlap_buffer, status, interrupted>>
    /\ UNCHANGED captureVars /\ UNCHANGED mainVars

\* resumed after the overlap yield: overlap_buffer.clear() (client.py:100)
ClearOverlap(s) ==
    /\ gen[s].pc = "overlap"
    /\ status[s] = "active"
    /\ overlap_buffer' = <<>>
    /\ SetGen(s, "get", <<>>)
    /\ UNCHANGED <<buff, out, status, interrupted>>
    /\ UNCHANGED captureVars /\ UNCHANGED mainVars

\* a Resume that goes back to the top of the generator and replays the window
Resume_ReplayAgain(s) ==
    /\ gen[s].pc = "yielded"
    /\ status[s] = "active"
    /\ IF overlap_buffer # <<>>
       THEN /\ SetGen(s, "overlap", <<>>)
            /\ Yield(s, "replay", Join(overlap_buffer))
       ELSE /\ SetGen(s, "get", <<>>)
            /\ UNCHANGED out
    /\ UNCHANGED <<buff, overlap_buffer, status, interrupted>>
    /\ UNCHANGED captureVars /\ UNCHANGED mainVars

\* resumed after a chunk yield: back to the top of the loop (client.py:102)
Resume(s) ==
    /\ gen[s].pc = "yielded"
    /\ status[s] = "active"
    /\ SetGen(s, "get", <<>>)
    /\ UNCHANGED <<buff, overlap_buffer, out, status, interrupted>>
    /\ UNCHANGED captureVars /\ UNCHANGED mainVars

\* data = [buff.get()] (client.py:104)
BlockingGet(s) ==
    /\ gen[s].pc = "get"
    /\ buff # <<>>
    /\ gen' = [gen EXCEPT ![s].pc = "drain", ![s].data = <<Head(buff)>>,
                           ![s].took = Append(@, Head(buff))]
    /\ buff' = Tail(buff)
    /\ UNCHANGED <<overlap_buffer, out, status, interrupted>>
    /\ UNCHANGED captureVars /\ UNCHANGED mainVars

\* data.append(buff.get(block=False)) (client.py:109)
DrainOne(s) ==
    /\ gen[s].pc = "drain"
    /\ buff # <<>>
    /\ gen' = [gen EXCEPT ![s].data = Append(@, Head(buff)),
                           ![s].took = Append(@, Head(buff))]
    /\ buff' = Tail(buff)
    /\ UNCHANGED <<overlap_buffer, out, status, interrupted>>
    /\ UNCHANGED captureVars /\ UNCHANGED mainVars

\* queue.Empty ends the drain; the batch is examined (client.py:110-123)
BatchPc(data) ==
    IF In(None, data)
    THEN LET rest == ListRemove(data, None)
         IN IF rest = <<>> THEN "done"
            ELSE IF In(None, rest) THEN "TypeError"
            ELSE "put"
    ELSE "yielded"

DrainEmpty(s) ==
    /\ gen[s].pc = "drain"
    /\ buff = <<>>
    /\ LET data == gen[s].data
           pc == BatchPc(data)
       IN IF pc = "yielded"
          THEN /\ overlap_buffer' = DequeExtend(overlap_buffer, data)
               /\ SetGen(s, "yielded", <<>>)
               /\ Yield(s, "fresh", Join(data))
          ELSE /\ SetGen(s, pc, IF pc = "put" THEN ListRemove(data, None) ELSE <<>>)
               /\ UNCHANGED <<overlap_buffer, out>>
    /\ UNCHANGED <<buff, status, interrupted>>
    /\ UNCHANGED captureVars /\ UNCHANGED mainVars

\* a PutBack that puts back the first item of the batch only
PutBack_FirstItemOnly(s) ==
    /\ gen[s].pc = "put"
    /\ buff' = Append(buff, Head(gen[s].data))
    /\ gen' = [gen EXCEPT ![s].pc = "done", ![s].data = <<>>,
                           ![s].back = Head(gen[s].data)]
    /\ UNCHANGED <<overlap_buffer, out, status, interrupted>>
    /\ UNCHANGED captureVars /\ UNCHANGED mainVars

\* buff.put(b''.join(data)); break (client.py:118-119)
PutBack(s) ==
    /\ gen[s].pc = "put"
    /\ buff' = Append(buff, Join(gen[s].data))
    /\ gen' = [gen EXCEPT ![s].pc = "done", ![s].data = <<>>,
                           ![s].back = Join(gen[s].data)]
    /\ UNCHANGED <<overlap_buffer, out, status, interrupted>>
    /\ UNCHANGED captureVars /\ UNCHANGED mainVars

Sender(s) ==
    \/ SendConfig(s) \/ StartGenerator(s) \/ ClearOverlap(s) \/ Resume(s)
    \/ BlockingGet(s) \/ DrainOne(s) \/ DrainEmpty(s) \/ PutBack(s)

\* ---- the remote service and the transport ---------------------------------
\* the service completes the call of the active session
RemoteClose ==
    /\ status[recognize_stream] = "active"
    /\ status' = [status EXCEPT ![recognize_stream] = "closed"]
    /\ UNCHANGED <<buff, overlap_buffer, gen, out, interrupted>>
    /\ UNCHANGED captureVars /\ UNCHANGED mainVars

\* the deadline given to StreamingRecognize passes (client.py:49-50, 68-69)
DeadlineExceeded ==
    /\ status[recognize_stream] = "active"
    /\ status' = [status EXCEPT ![recognize_stream] = "deadline"]
    /\ UNCHANGED <<buff, overlap_buffer, gen, out, interrupted>>
    /\ UNCHANGED captureVars /\ UNCHANGED mainVars

\* recognize_stream.cancel(): no effect on a call that is already over
CancelRpc(st, s) == [st EXCEPT ![s] = IF @ = "active" THEN "cancelled" ELSE @]

\* signal handler: lambda *_: recognize_stream.cancel() (client.py:53); it
\* runs in the main thread, between any two of its steps
SIGINT ==
    /\ mainpc \in {"read", "rebuild"}
    /\ interrupted' = TRUE
    /\ status' = CancelRpc(status, recognize_stream)
    /\ UNCHANGED <<buff, overlap_buffer, gen, out>>
    /\ UNCHANGED captureVars /\ UNCHANGED mainVars

\* ---- main thread: listen_print_loop ----------------------------------------
\* an error test that is made only for responses without results
IsError_AfterResultsTest(r) == r.code # OK /\ r.results = <<>>

\* resp.error.code != code_pb2.OK (client.py:206)
IsError(r) == r.code # OK

\* every response without results counts as the end of the utterance
IsEndOfUtterance_AnyEmpty(r) == r.results = <<>>

IsEndOfUtterance(r) == r.results = <<>> /\ r.endpointer_type = "END_OF_UTTERANCE"

\* the text of the last alternative instead of the first
Transcript_LastAlternative(r) ==
    r.results[1].alternatives[Len(r.results[1].alternatives)].transcript

\* result = resp.results[0]; transcript = result.alternatives[0].transcript
Transcript(r) == r.results[1].alternatives[1].transcript

\* every result counts as final
IsFinal_Always(r) == TRUE

\* result.is_final of the first result
IsFinal(r) == r.results[1].is_final

\* the wake word is tested after the command block instead of before it
PromptAfter_WakeCheckLast(p, c, r) ==
    LET p1 == IF c /\ IsFinal(r) THEN TRUE ELSE p
    IN IF p1 /\ getting_bots_attention(Transcript(r)) THEN FALSE ELSE p1

\* client.py:219-228: the three flag updates, in order, and the print
PromptAfter(p, c, r) ==
    LET t == Transcript(r)
        f == IsFinal(r)
        p1 == IF p /\ getting_bots_attention(t) THEN FALSE ELSE p
    IN IF c /\ f THEN TRUE ELSE p1

\* the third test reads listening_for_prompt as it was before this response
CommandAfter_NextTurn(p, c, r) ==
    LET f == IsFinal(r)
        c2 == IF c /\ f THEN FALSE ELSE c
    IN IF ~p /\ ~c2 /\ f THEN TRUE ELSE c2

CommandAfter(p, c, r) ==
    LET f == IsFinal(r)
        p2 == PromptAfter(p, c, r)
        c2 == IF c /\ f THEN FALSE ELSE c
    IN IF ~p2 /\ ~c2 /\ f THEN TRUE ELSE c2

\* every final transcript is printed as a command
HeardAfter_AnyFinal(h, c, r) ==
    IF IsFinal(r) THEN Append(h, Transcript(r)) ELSE h

HeardAfter(h, c, r) ==
    IF c /\ IsFinal(r) THEN Append(h, Transcript(r)) ELSE h

\* one iteration of `for resp in recognize_stream` with a response of R
ReadResponseFrom(R) ==
    /\ mainpc = "read"
    /\ status[recognize_stream] = "active"
    /\ Inputs < MaxInputs
    /\ \E r \in R :
        /\ resp' = r
        /\ nresp' = nresp + 1
        /\ IF IsError(r)
           THEN /\ mainpc' = "raised"
                /\ result' = [kind |-> "RuntimeError",
                              message |-> <<"Server error: ", r.message>>]
                /\ UNCHANGED <<buff, eou_seen>>
                /\ UNCHANGED dialogVars
           ELSE IF r.results = <<>>
           THEN /\ buff' = IF IsEndOfUtterance(r) THEN Append(buff, None) ELSE buff
                /\ eou_seen' = IF IsEndOfUtterance(r)
                               THEN eou_seen \cup {recognize_stream} ELSE eou_seen
                /\ UNCHANGED <<mainpc, result>>
                /\ UNCHANGED dialogVars
           ELSE /\ listening_for_prompt' =
                       PromptAfter(listening_for_prompt, listening_for_command, r)
                /\ listening_for_command' =
                       CommandAfter(listening_for_prompt, listening_for_command, r)
                /\ heard' = HeardAfter(heard, listening_for_command, r)
                /\ UNCHANGED <<mainpc, result, buff, eou_seen>>
    /\ UNCHANGED <<overlap_buffer, gen, out, status, recognize_stream, interrupted>>
    /\ UNCHANGED captureVars

ReadResponse == ReadResponseFrom(Responses)

ReadDialogResponse == ReadResponseFrom(DialogResponses)

\* the response iterator is exhausted: listen_print_loop returns and
\* recognize_stream.cancel() is called (client.py:58-63)
ReadEnd ==
    /\ mainpc = "read"
    /\ status[recognize_stream] = "closed"
    /\ status' = CancelRpc(status, recognize_stream)
    /\ mainpc' = "rebuild"
    /\ UNCHANGED <<buff, overlap_buffer, gen, out, interrupted>>
    /\ UNCHANGED <<recognize_stream, resp, nresp, result, eou_seen>>
    /\ UNCHANGED dialogVars /\ UNCHANGED captureVars

\* next() raises grpc.RpcError: caught by `except grpc.RpcError: pass`
\* (client.py:71-73); leaving the with block runs the rest of record_audio
\* (client.py:153-158)
ReadRpcError ==
    /\ mainpc = "read"
    /\ status[recognize_stream] \in {"cancelled", "deadline"}
    /\ mainpc' = "returned"
    /\ result' = [kind |-> "returned"]
    /\ audio_open' = FALSE
    /\ buff' = Append(buff, None)
    /\ UNCHANGED <<captured, overlap_buffer, gen, out, status, interrupted>>
    /\ UNCHANGED <<recognize_stream, resp, nresp, eou_seen>>
    /\ UNCHANGED dialogVars

\* a Rebuild that also makes a new queue and a new overlap window
Rebuild_FreshQueue ==
    /\ mainpc = "rebuild"
    /\ recognize_stream < MaxSessions
    /\ Inputs < MaxInputs
    /\ recognize_stream' = recognize_stream + 1
    /\ gen' = [gen EXCEPT ![recognize_stream + 1] = NewGenerator("created")]
    /\ status' = [status EXCEPT ![recognize_stream + 1] = "active"]
    /\ mainpc' = "read"
    /\ buff' = <<>>
    /\ overlap_buffer' = <<>>
    /\ UNCHANGED <<out, interrupted>>
    /\ UNCHANGED <<resp, nresp, result, eou_seen>>
    /\ UNCHANGED dialogVars /\ UNCHANGED captureVars

\* a new generator and a new call (client.py:65-69)
Rebuild ==
    /\ mainpc = "rebuild"
    /\ recognize_stream < MaxSessions
    /\ Inputs < MaxInputs
    /\ recognize_stream' = recognize_stream + 1
    /\ gen' = [gen EXCEPT ![recognize_stream + 1] = NewGenerator("created")]
    /\ status' = [status EXCEPT ![recognize_stream + 1] = "active"]
    /\ mainpc' = "read"
    /\ UNCHANGED <<buff, overlap_buffer, out, interrupted>>
    /\ UNCHANGED <<resp, nresp, result, eou_seen>>
    /\ UNCHANGED dialogVars /\ UNCHANGED captureVars

Next ==
    \/ FillBuffer
    \/ \E s \in Sessions : Sender(s)
    \/ RemoteClose
    \/ DeadlineExceeded
    \/ SIGINT
    \/ ReadResponse
    \/ ReadEnd
    \/ ReadRpcError
    \/ Rebuild

Spec == Init /\ [][Next]_vars

\* the main thread alone, on the wider set of responses: the microphone is
\* silent and the request generators are not pulled
NextDialog ==
    \/ RemoteClose
    \/ DeadlineExceeded
    \/ SIGINT
    \/ ReadDialogResponse
    \/ ReadEnd
    \/ ReadRpcError
    \/ Rebuild

SpecDialog == Init /\ [][NextDialog]_vars

\* ---- vocabulary of the properties ------------------------------------------
\* contents of the chunks of one kind that the generator of session s yielded
ChunksOf(s, kind) ==
    LET sel == SelectSeq(out[s], LAMBDA m : m.kind = kind)
    IN [i \in DOMAIN sel |-> sel[i].content]

\* the frames session s emitted fresh, and those it replayed from the window
FreshOf(s) == Join(ChunksOf(s, "fresh"))
ReplayOf(s) == Join(ChunksOf(s, "replay"))

RECURSIVE AllFresh(_)
\* the fresh emissions of sessions 1..n, session after session
AllFresh(n) == IF n = 0 THEN <<>> ELSE AllFresh(n - 1) \o FreshOf(n)

Increasing(q) == \A i, j \in DOMAIN q : i < j => q[i] < q[j]

Occurrences(f, q) == Cardinality({i \in DOMAIN q : q[i] = f})

RealItems(items) == SelectSeq(items, LAMBDA x : x # None)

\* the items before the first sentinel
RECURSIVE BeforeSentinel(_)
BeforeSentinel(items) ==
    IF items = <<>> \/ Head(items) = None THEN <<>>
    ELSE <<Head(items)>> \o BeforeSentinel(Tail(items))

LastFrames(q, n) == SubSeq(q, IF Len(q) > n THEN Len(q) - n + 1 ELSE 1, Len(q))

IsPrefix(p, q) == Len(p) <= Len(q) /\ SubSeq(q, 1, Len(p)) = p

\* frame f is still in the queue or in a batch a generator is working on
Pending(f) ==
    \/ \E i \in DOMAIN buff : In(f, buff[i])
    \/ \E s \in Sessions : \E i \in DOMAIN gen[s].data : In(f, gen[s].data[i])

Started(s) == gen[s].pc \notin {"none", "created", "config"}
InsideNext(s) == gen[s].pc \in {"get", "drain", "put"}
EndedAtSentinel(s) == gen[s].pc \in {"done", "TypeError"}

TypeOK ==
    /\ captured \in 0..MaxInputs
    /\ nresp \in 0..MaxInputs
    /\ recognize_stream \in Sessions
    /\ Len(overlap_buffer) <= OverlapMaxLen

\* ---- C1 ---------------------------------------------------------------------
\* C1: whatever the interleaving of capture and generator, the frames waiting
\* in the queue are in capture order (a batch that is put back stands before
\* every frame captured after it), and so are the fresh frames emitted, taken
\* session after session.
C1_CaptureOrder ==
    /\ Increasing(Join(RealItems(buff)))
    /\ Increasing(AllFresh(MaxSessions))

\* ---- C2 ---------------------------------------------------------------------
\* C2: a frame is in the fresh emission of at most one session, of exactly one
\* once it is neither queued nor in a batch; it is replayed at most once, and
\* then by the session right after the one that emitted it fresh.
C2_ExactlyOneFreshEmission ==
    \A f \in 1..captured :
        LET n == Cardinality({s \in Sessions : In(f, FreshOf(s))})
        IN /\ n <= 1
           /\ \A s \in Sessions : Occurrences(f, FreshOf(s)) <= 1
           /\ ~Pending(f) => n = 1
           /\ Cardinality({s \in Sessions : In(f, ReplayOf(s))}) <= 1
           /\ \A s \in Sessions :
                In(f, ReplayOf(s)) =>
                    /\ Occurrences(f, ReplayOf(s)) = 1
                    /\ s > 1
                    /\ In(f, FreshOf(s - 1))

C4_BoundedOverlap ==
    \A n \in Sessions :
        (n + 1 \in Sessions /\ Started(n + 1)) =>
            /\ ReplayOf(n + 1) = LastFrames(FreshOf(n), OverlapMaxLen)
            /\ Len(ReplayOf(n + 1)) <= OverlapMaxLen

\* ---- C5 ---------------------------------------------------------------------
\* C5: a sentinel ends the chunk sequence of the generator that takes it, is
\* never yielded or joined as audio, and the real frames batched with it are
\* all put back.
C5_SentinelBatchPutBack ==
    \A s \in Sessions :
        /\ \A i \in DOMAIN out[s] : ~In(0, out[s][i].content)
        /\ ~In(0, gen[s].back)
        /\ EndedAtSentinel(s) =>
              FreshOf(s) \o gen[s].back = Join(RealItems(gen[s].took))

\* ---- C6 ---------------------------------------------------------------------
\* C6: a second sentinel does no harm: no generator fails, no frame is lost,
\* and no more generators are ended by a sentinel than sessions saw an end of
\* utterance (plus the one sentinel record_audio puts on the way out).
C6_DuplicateSentinelHarmless ==
    /\ \A s \in Sessions : gen[s].pc # "TypeError"
    /\ \A f \in 1..captured :
          Pending(f) \/ \E s \in Sessions : In(f, FreshOf(s))
    /\ Cardinality({s \in Sessions : EndedAtSentinel(s)})
          <= Cardinality(eou_seen) + (IF mainpc = "returned" THEN 1 ELSE 0)

\* ---- C7 ---------------------------------------------------------------------
\* C7: at most one generator at a time is inside next(), reading the queue
\* and touching the overlap window.
C7_SingleReader ==
    Cardinality({s \in Sessions : InsideNext(s)}) <= 1

\* ---- C8 ---------------------------------------------------------------------
\* C8: once the interrupt has arrived, the session bound to recognize_stream
\* is not running: the active one was cancelled and none is opened afterwards.
C8_NoSessionAfterInterrupt ==
    interrupted => status[recognize_stream] # "active"

\* ---- C9 ---------------------------------------------------------------------
\* C9: a response with a non-OK code makes listen raise the error with the
\* service's message; the step that raises and every later step enqueue no
\* sentinel, leave the dialog flags and the printed commands alone, read no
\* further response and open no session.
C9_FatalErrorAborts ==
    /\ [](resp.code # OK =>
            /\ mainpc = "raised"
            /\ result = [kind |-> "RuntimeError",
                         message |-> <<"Server error: ", resp.message>>])
    /\ [](mainpc = "raised" => resp.code # OK)
    /\ [][mainpc' = "raised" =>
            /\ UNCHANGED <<dialogVars, recognize_stream, eou_seen>>
            /\ Len(SelectSeq(buff', LAMBDA x : x = None))
                  <= Len(SelectSeq(buff, LAMBDA x : x = None))
            /\ \A s \in Sessions : status[s] = "unopened" => status'[s] = "unopened"
            /\ mainpc = "raised" => UNCHANGED <<resp, nresp, result>>]_vars

C9_Witness ==
    /\ mainpc = "raised"
    /\ recognize_stream = 2
    /\ resp.results # <<>>
    /\ result.message = <<"Server error: ", "quota">>

\* ---- C10 --------------------------------------------------------------------
\* C10: listen does not return normally when the deadline of the session it
\* was reading has passed; only a cancelled session ends it that way.
C10_DeadlineIsFatal ==
    mainpc = "returned" => status[recognize_stream] # "deadline"

\* ---- C11 --------------------------------------------------------------------
\* C11: at most one call is live, and it is the one bound to recognize_stream;
\* every earlier call has ended.  A new call is opened only by the main thread
\* standing after recognize_stream.cancel(), when the responses of the current
\* call have ended, and that step leaves the queue and the overlap window, the
\* same objects as before, untouched.
C11_OneSessionAtATime ==
    /\ [](/\ Cardinality({s \in Sessions : status[s] = "active"}) <= 1
          /\ \A s \in Sessions :
                /\ status[s] = "active" => s = recognize_stream
                /\ s < recognize_stream => status[s] = "closed"
                /\ s > recognize_stream => status[s] = "unopened")
    /\ [][recognize_stream' # recognize_stream =>
            /\ recognize_stream' = recognize_stream + 1
            /\ mainpc = "rebuild"
            /\ status[recognize_stream] = "closed"
            /\ status'[recognize_stream'] = "active"
            /\ buff' = buff
            /\ overlap_buffer' = overlap_buffer]_vars

C11_Witness ==
    /\ recognize_stream = 2
    /\ status[2] = "active"
    /\ buff # <<>>
    /\ overlap_buffer # <<>>

\* ---- vocabulary of the dialog properties ------------------------------------
AwaitingWakeWord == "AwaitingWakeWord"
Armed == "Armed"
AwaitingCommand == "AwaitingCommand"

\* the dialog state a pair of flags stands for
DialogStateOf(p, c) ==
    IF p /\ ~c THEN AwaitingWakeWord
    ELSE IF ~p /\ ~c THEN Armed
    ELSE IF ~p /\ c THEN AwaitingCommand
    ELSE "none"
DialogState == DialogStateOf(listening_for_prompt, listening_for_command)

\* a step of the main thread that handled a response / a Partial or Final result
ResponseEvent == nresp' = nresp + 1
ResultEvent == ResponseEvent /\ resp'.code = OK /\ resp'.results # <<>>
FirstText(r) == r.results[1].alternatives[1].transcript
FirstFinal(r) == r.results[1].is_final

\* some whitespace-separated word of text is the wake word, ignoring case
CasePairs ==
    {<<"J", "j">>, <<"A", "a">>, <<"R", "r">>, <<"V", "v">>, <<"I", "i">>, <<"S", "s">>}
SameLetter(a, b) == a = b \/ <<a, b>> \in CasePairs \/ <<b, a>> \in CasePairs
Blank(ch) == ch \in {" ", "\t", "\n"}
WholeWordMatch(text) ==
    \E i \in 1..Len(text) :
        LET j == i + Len(BOT_NAME) - 1
        IN /\ j <= Len(text)
           /\ \A k \in 1..Len(BOT_NAME) : SameLetter(text[i + k - 1], BOT_NAME[k])
           /\ i = 1 \/ Blank(text[i - 1])
           /\ j = Len(text) \/ Blank(text[j + 1])

\* ---- C12 --------------------------------------------------------------------
\* C12: in AwaitingWakeWord, one final result whose text has the wake word
\* leaves the dialog in AwaitingCommand when that same response has been
\* handled, and nothing is printed as a command in that step.
C12_SameTurnArming ==
    [][(/\ ResultEvent
        /\ DialogState = AwaitingWakeWord
        /\ FirstFinal(resp')
        /\ WholeWordMatch(FirstText(resp')))
       => (/\ ~listening_for_prompt'
           /\ listening_for_command'
           /\ heard' = heard)]_vars

C12_Witness ==
    /\ nresp = 1
    /\ resp.code = OK /\ resp.results # <<>>
    /\ FirstFinal(resp) /\ WholeWordMatch(FirstText(resp))
    /\ DialogState = AwaitingCommand
    /\ heard = <<>>

\* ---- C13 --------------------------------------------------------------------
\* C13: in AwaitingCommand, a final result with text T prints exactly T as one
\* more command and leaves the dialog in AwaitingWakeWord after the same
\* response, also when T has the wake word in it.
C13_CommandResetsState ==
    [][(/\ ResultEvent
        /\ DialogState = AwaitingCommand
        /\ FirstFinal(resp'))
       => (/\ heard' = Append(heard, FirstText(resp'))
           /\ listening_for_prompt'
           /\ ~listening_for_command')]_vars

C13_Witness ==
    /\ nresp = 2
    /\ resp.code = OK /\ resp.results # <<>>
    /\ FirstFinal(resp) /\ WholeWordMatch(FirstText(resp))
    /\ heard = <<FirstText(resp)>>
    /\ DialogState = AwaitingWakeWord

\* ---- C14 --------------------------------------------------------------------
\* C14: whatever the threads do, a command is printed only by the step that
\* handles a final result while the dialog is in AwaitingCommand, and that step
\* leaves the dialog in AwaitingWakeWord; the dialog leaves AwaitingWakeWord
\* only on a result whose text has the wake word, and enters AwaitingCommand
\* only on a final result; every other step (a partial result, an end of
\* utterance, a dropped or failed response, a rebuild, the audio threads)
\* prints nothing and, unless it handles a result, keeps the dialog state.
C14_CommandsOnlyWhenAwaited ==
    [][/\ heard' # heard =>
            /\ ResultEvent
            /\ FirstFinal(resp')
            /\ DialogState = AwaitingCommand
            /\ heard' = Append(heard, FirstText(resp'))
            /\ DialogState' = AwaitingWakeWord
       /\ (DialogState = AwaitingWakeWord /\ DialogState' # AwaitingWakeWord) =>
            /\ ResultEvent
            /\ WholeWordMatch(FirstText(resp'))
       /\ (DialogState # AwaitingCommand /\ DialogState' = AwaitingCommand) =>
            /\ ResultEvent
            /\ FirstFinal(resp')
       /\ ~ResultEvent => UNCHANGED dialogVars]_vars

C14_Witness ==
    /\ Len(heard) = 1
    /\ recognize_stream = 2
    /\ eou_seen # {}
    /\ DialogState = AwaitingWakeWord

\* ---- C15 --------------------------------------------------------------------
\* C15: getting_bots_attention is true of the text of a result exactly when
\* some whitespace-separated word of the text is the wake word ignoring case
\* ("hey Jarvis" matches, "Jarviston" does not); and handling a partial or
\* final result in AwaitingWakeWord leaves that state exactly when the text
\* matches in this sense.
C15_WholeWordIgnoringCase ==
    /\ []((resp.code = OK /\ resp.results # <<>>) =>
            /\ getting_bots_attention(FirstText(resp)) = WholeWordMatch(FirstText(resp))
            /\ FirstText(resp) = HeyJarvis => getting_bots_attention(FirstText(resp))
            /\ FirstText(resp) = Jarviston => ~getting_bots_attention(FirstText(resp)))
    /\ [][(ResultEvent /\ DialogState = AwaitingWakeWord) =>
            ((DialogState' # AwaitingWakeWord) <=> WholeWordMatch(FirstText(resp')))]_vars

C15_Witness ==
    /\ nresp = 2
    /\ resp.code = OK /\ resp.results # <<>>
    /\ FirstText(resp) = Jarviston
    /\ DialogState = AwaitingWakeWord
    /\ heard = <<>>
    /\ mainpc = "read"

\* ---- C16 --------------------------------------------------------------------
\* C16: a response is handled by the first of these that applies.  A status
\* other than OK raises, with the queue and the dialog untouched, whatever
\* else the response carries.  No results and the END_OF_UTTERANCE endpointer:
\* one sentinel is appended to the queue and reading goes on.  No results
\* otherwise: nothing changes.  Results: the queue is untouched, and the
\* response is taken as final or partial by the flag of its first result and
\* with the text of that result's first alternative.
C16_ClassificationOrder ==
    [][ResponseEvent =>
        LET r == resp' IN
        IF r.code # OK
        THEN /\ mainpc' = "raised"
             /\ buff' = buff
             /\ UNCHANGED dialogVars
        ELSE IF r.results = <<>> /\ r.endpointer_type = "END_OF_UTTERANCE"
        THEN /\ buff' = Append(buff, None)
             /\ mainpc' = "read"
             /\ UNCHANGED dialogVars
        ELSE IF r.results = <<>>
        THEN /\ buff' = buff
             /\ mainpc' = "read"
             /\ UNCHANGED dialogVars
        ELSE /\ buff' = buff
             /\ mainpc' = "read"
             /\ heard' = IF DialogState = AwaitingCommand /\ r.results[1].is_final
                         THEN Append(heard, r.results[1].alternatives[1].transcript)
                         ELSE heard
             /\ DialogState = AwaitingWakeWord =>
                    ((DialogState' = AwaitingWakeWord)
                        <=> ~WholeWordMatch(r.results[1].alternatives[1].transcript))
             /\ DialogState = Armed =>
                    ((DialogState' = AwaitingCommand) <=> r.results[1].is_final)]_vars

C16_Witness ==
    /\ nresp = 2
    /\ resp.code = OK
    /\ Len(resp.results) = 2
    /\ resp.endpointer_type = "END_OF_UTTERANCE"
    /\ resp.results[1].is_final /\ ~resp.results[2].is_final
    /\ heard = <<Lights>>
    /\ buff = <<>>
    /\ mainpc = "read"

\* ---- C17 --------------------------------------------------------------------
\* C17: the requests of a session are the config request, first and only
\* once, then audio requests.  The replay of the overlap window is yielded
\* when the generator body starts with a non-empty window, as the first audio
\* request, and not again in that session; with an empty window nothing is
\* yielded at the start.  Requests are only ever appended, one per step, and
\* none is yielded once the generator has ended.
C17_ConfigThenChunks ==
    /\ [](\A s \in Sessions :
            /\ out[s] # <<>> => out[s][1].kind = "config"
            /\ Started(s) => out[s] # <<>>
            /\ \A i \in DOMAIN out[s] :
                /\ i > 1 => out[s][i].kind \in {"replay", "fresh"}
                /\ out[s][i].kind = "replay" => i = 2)
    /\ [][\A s \in Sessions :
            /\ out'[s] # out[s] => \E m \in {out'[s][Len(out'[s])]} : out'[s] = Append(out[s], m)
            /\ (gen[s].pc = "config" /\ gen'[s].pc # "config") =>
                    out'[s] = IF overlap_buffer # <<>>
                              THEN Append(out[s], [kind |-> "replay",
                                                   content |-> Join(overlap_buffer),
                                                   sent |-> TRUE])
                              ELSE out[s]
            /\ EndedAtSentinel(s) => out'[s] = out[s]]_vars

C17_Witness ==
    /\ Len(out[2]) = 3
    /\ out[2][2].kind = "replay"
    /\ out[2][3].kind = "fresh"
    /\ Len(out[1]) = 2

\* ---- C18 --------------------------------------------------------------------
\* C18: the generator whose batch holds a sentinel yields no chunk from that
\* batch and ends as an exhausted sequence (after putting the batch's frames
\* back, if it has any), never with an exception.
C18_SentinelEndsSequence ==
    [][\A s \in Sessions :
        (gen[s].pc = "drain" /\ gen'[s].pc # "drain" /\ In(None, gen[s].data)) =>
            /\ out'[s] = out[s]
            /\ gen'[s].pc \in {"put", "done"}]_vars

\* ---- C19 --------------------------------------------------------------------
\* C19: a partial result handled while Armed or AwaitingCommand, and a partial
\* or final result without the wake word handled while AwaitingWakeWord,
\* change neither flag and print nothing; a final result handled while Armed,
\* with or without the wake word, leads to AwaitingCommand and prints nothing.
C19_OtherEventsChangeNothing ==
    [][ResultEvent =>
        /\ (~FirstFinal(resp') /\ DialogState \in {Armed, AwaitingCommand}) =>
                UNCHANGED dialogVars
        /\ (DialogState = AwaitingWakeWord /\ ~WholeWordMatch(FirstText(resp'))) =>
                UNCHANGED dialogVars
        /\ (DialogState = Armed /\ FirstFinal(resp')) =>
                /\ DialogState' = AwaitingCommand
                /\ heard' = heard]_vars

C19_Witness ==
    /\ nresp = 3
    /\ resp.code = OK /\ resp.results # <<>>
    /\ ~FirstFinal(resp)
    /\ FirstText(resp) = Lights
    /\ DialogState = AwaitingCommand
    /\ heard = <<>>

\* ---- C20 --------------------------------------------------------------------
\* the transition function of the three-valued dialog: the wake-word rule is
\* applied first; a final result in AwaitingCommand gives the command and
\* AwaitingWakeWord; a final result with the dialog (by now) Armed gives
\* AwaitingCommand; anything else keeps the state
DialogTransition(S, final, T) ==
    LET S1 == IF S = AwaitingWakeWord /\ WholeWordMatch(T) THEN Armed ELSE S
    IN IF S = AwaitingCommand /\ final
       THEN [state |-> AwaitingWakeWord, output |-> <<T>>]
       ELSE IF S1 = Armed /\ final
       THEN [state |-> AwaitingCommand, output |-> <<>>]
       ELSE [state |-> S1, output |-> <<>>]

\* C20: the two flags are never both set, so that they always stand for one
\* of the three dialog states, and handling a partial or final result takes
\* the flags to the state, and prints the command, that the transition
\* function of the three-valued dialog gives for the state they stood for.
C20_FlagsRefineDialogState ==
    /\ [](~(listening_for_prompt /\ listening_for_command))
    /\ [][ResultEvent =>
            LET t == DialogTransition(DialogState, FirstFinal(resp'), FirstText(resp'))
            IN /\ DialogState' = t.state
               /\ heard' = heard \o t.output]_vars

C20_Witness ==
    /\ nresp = 3
    /\ Len(heard) = 1
    /\ DialogState = Armed
    /\ resp.code = OK /\ resp.results # <<>>
    /\ ~FirstFinal(resp)

====
